---------------------------- MODULE Spec2Model ----------------------------
(***************************************************************************)
(* docker-cost-analyzer: the monitoring loop (monitoring/monitor.py), the  *)
(* Trend Store (monitoring/database.py), the resource analyzer            *)
(* (analyzers/resources.py), the security analyzer (analyzers/security.py) *)
(* and the fix generator (generators/fixes.py), as state machines.         *)
(*                                                                         *)
(*   Spec       the monitoring loop: tick, per-container analysis,         *)
(*              summary/alert, sleep, cancellation                         *)
(*   SpecStore  the Trend Store used by two processes on one file          *)
(*   SpecHistory   the Trend Store over time, local clock offset from UTC  *)
(*   SpecParse  ResourceAnalyzer._parse_stats applied to a raw snapshot    *)
(*   SpecAnalyze   one ResourceAnalyzer: collect_metrics, analyze and the  *)
(*              fix script generated from the findings                     *)
(*   SpecCollect   collect_metrics sample by sample, with its waits        *)
(*   SpecSecurity  one SecurityAnalyzer evaluating a configuration         *)
(*                                                                         *)
(* Money is in whole euros, time in clock units (DayLen units per day).    *)
(* Memory amounts are in MiB.  Floats are modelled as exact rationals      *)
(* [num, den]; binary float rounding is not modelled, round(x, 2) is.      *)
(***************************************************************************)
EXTENDS Integers, Sequences, FiniteSets, TLC

VARIABLES
    \* ---- monitoring loop (ContainerMonitor) ----
    pc,               \* position of run(): "tick", "scan", "sleep", "exited"
    exit_cause,       \* why run() was left: "none", "KeyboardInterrupt", "APIError"
    scan_count,       \* run(): scan_count
    alert_threshold,  \* self.alert_threshold
    containers,       \* _scan_all_containers: containers (list of this tick)
    idx,              \* index of the for loop over containers
    total_waste,      \* _scan_all_containers: total_waste
    critical_count,   \* _scan_all_containers: critical_count
    summarised,       \* the tick printed its summary (lines 84-86)
    alerted,          \* the tick printed the ALERT line (line 90)
    tick_metrics,     \* metrics rows appended by this tick's store_metric calls
    tick_events,      \* security_events rows appended by this tick
    tick_log,         \* per processed container: what its analysis did
    \* ---- Trend Store (MetricsDB), one file shared by the processes ----
    schema,           \* the two tables exist in the file
    metrics,          \* table metrics, in rowid order
    events,           \* table security_events, in rowid order
    now_utc,          \* the instant, as the UTC clock reads it
    tz_offset,        \* local wall clock minus UTC clock, on this host
    constructed,      \* per process: it holds a MetricsDB object
    wpc,              \* per process: "idle", or "txn" inside a store call
    pending,          \* per process in "txn": the INSERT not yet committed
    lock,             \* the process holding the file's write lock
    open_conns,       \* connections opened and not yet closed
    last_call,        \* the step taken last: the call, how it ended, its result
    acked,            \* the store calls that returned normally
    \* ---- snapshot parser (ResourceAnalyzer._parse_stats) ----
    stats,            \* the raw snapshot container.stats() returned (CPU part)
    mem_stats,        \* stats['memory_stats'] of that snapshot
    parsed,           \* what _parse_stats made of it
    \* ---- waste classifier (one ResourceAnalyzer object) ----
    metrics_history,  \* self.metrics_history: the sample window
    analyses,         \* the analyze() calls made on the object, in order
    collecting,       \* a collect_metrics call in progress, sample by sample
    script,           \* the fix script generated last: its docker run flags
    \* ---- security evaluation (one SecurityAnalyzer object) ----
    inspect,          \* self.inspect: the container's configuration snapshot
    evaluation,       \* the last analyze() call: image lookup, outcome
    previous          \* the analyze() call before it, on the same snapshot

loopVars == <<pc, exit_cause, scan_count, alert_threshold, containers, idx,
              total_waste, critical_count, summarised, alerted,
              tick_metrics, tick_events, tick_log>>

storeVars == <<schema, metrics, events, now_utc, tz_offset, constructed, wpc,
               pending, lock, open_conns, last_call, acked>>

parseVars == <<stats, mem_stats, parsed>>

analyzerVars == <<metrics_history, analyses, collecting, script>>

securityVars == <<inspect, evaluation, previous>>

vars == <<loopVars, storeVars, parseVars, analyzerVars, securityVars>>

\* what the steps of one component leave alone
notLoopVars == <<storeVars, parseVars, analyzerVars, securityVars>>
notStoreVars == <<loopVars, parseVars, analyzerVars, securityVars>>
notParseVars == <<loopVars, storeVars, analyzerVars, securityVars>>
notAnalyzerVars == <<loopVars, storeVars, parseVars, securityVars>>
notSecurityVars == <<loopVars, storeVars, parseVars, analyzerVars>>

-----------------------------------------------------------------------------
(* Bounds *)
MaxScans == 2
MaxContainers == 2
MaxRows == 2        \* rows per table
MaxTime == 3        \* clock units the store is observed for
DayLen == 2         \* clock units per day
MaxOpen == 2        \* connections open at once

(* Inputs *)
Containers == {"c1", "c2", "c3"}
ContainerName(c) == "name_" \o c

\* what one collection + classification of a container yields: the summary
\* columns (get_summary) and the two monthly waste costs (analyze)
Samples ==
    { [cpu_percent |-> 0,  memory_usage_mb |-> 100, memory_limit_mb |-> 1024,
       waste_cpu |-> 50,  waste_mem |-> 50],
      [cpu_percent |-> 0,  memory_usage_mb |-> 900, memory_limit_mb |-> 1024,
       waste_cpu |-> 100, waste_mem |-> 0],
      [cpu_percent |-> 55, memory_usage_mb |-> 900, memory_limit_mb |-> 1024,
       waste_cpu |-> 0,   waste_mem |-> 0] }

Issue(c, s, t) == [check_name |-> c, severity |-> s, title |-> t]

\* issue lists as SecurityAnalyzer.analyze returns them (sorted by severity)
IssueLists ==
    { << Issue("user_root", "CRITICAL", "Container running as root"),
         Issue("seccomp_disabled", "HIGH", "Seccomp disabled") >>,
      << Issue("user_root", "CRITICAL", "Container running as root"),
         Issue("privileged_mode", "CRITICAL", "Container running in privileged mode"),
         Issue("writable_rootfs", "LOW", "Root filesystem is writable") >>,
      << Issue("apparmor_disabled", "MEDIUM", "AppArmor disabled"),
         Issue("writable_rootfs", "LOW", "Root filesystem is writable") >> }

Thresholds == {0, 100}

-----------------------------------------------------------------------------
(* Helpers *)
RECURSIVE SumSeq(_)
SumSeq(s) == IF s = <<>> THEN 0 ELSE Head(s) + SumSeq(Tail(s))

RECURSIVE MapWaste(_)
MapWaste(log) ==
    IF log = <<>> THEN <<>>
    ELSE <<IF Head(log).estimated THEN Head(log).waste ELSE 0>> \o MapWaste(Tail(log))

Range(s) == { s[i] : i \in DOMAIN s }

\* lists of distinct running containers, as client.containers.list() returns
ContainerLists ==
    { s \in UNION { [1..n -> Containers] : n \in 0..MaxContainers } :
        \A i, j \in DOMAIN s : i # j => s[i] # s[j] }

FirstN(s, n) == SubSeq(s, 1, n)

-----------------------------------------------------------------------------
(* ContainerMonitor._analyze_container *)

\* a variant that also persists HIGH issues
IsPersistedHighToo(issue) == issue.severity \in {"CRITICAL", "HIGH"}

\* line 124: which issues are persisted as security events
IsPersisted(issue) == issue.severity = "CRITICAL"

MetricRow(c, s) ==
    [container_id |-> c, container_name |-> ContainerName(c),
     cpu_percent |-> s.cpu_percent, memory_usage_mb |-> s.memory_usage_mb,
     memory_limit_mb |-> s.memory_limit_mb,
     waste_cpu_cost |-> s.waste_cpu, waste_memory_cost |-> s.waste_mem]

EventRow(c, issue) ==
    [container_id |-> c, container_name |-> ContainerName(c),
     severity |-> issue.severity, check_name |-> issue.check_name,
     title |-> issue.title]

RECURSIVE EventRows(_, _)
EventRows(c, issues) ==
    IF issues = <<>> THEN <<>>
    ELSE <<EventRow(c, Head(issues))>> \o EventRows(c, Tail(issues))

\* line 105: total_waste = waste_cpu + waste_mem
ContainerWaste(s) == s.waste_cpu + s.waste_mem

\* where the analysis of one container can raise:
\*   "resources"    collect/get_summary/analyze: runtime API error or malformed
\*                  snapshot (no sample: KeyError at line 111; or analyze raises)
\*   "store_metric" store_metric raises (line 108)
\*   "security"     SecurityAnalyzer.analyze raises (line 120)
\*   "store_event"  the k-th store_security_event raises (line 126)
\*   "none"         the analysis returns
Failures(issues) ==
    { [at |-> a, k |-> 0] : a \in {"none", "resources", "store_metric", "security"} }
    \cup { [at |-> "store_event", k |-> k] :
             k \in 1..Len(SelectSeq(issues, IsPersisted)) }

\* The effect of _analyze_container(container) for sample s, issue list
\* issues and failure point f: the rows it appends, and what it returns.
AnalyzeContainer(c, s, issues, f) ==
    LET crit == SelectSeq(issues, IsPersisted)
        estimated == f.at # "resources"
        stored == f.at \in {"none", "security", "store_event"}
        written == CASE f.at = "none" -> crit
                     [] f.at = "store_event" -> FirstN(crit, f.k - 1)
                     [] OTHER -> <<>>
    IN  [container |-> c,
         returned |-> f.at = "none",
         failed_at |-> f.at,
         estimated |-> estimated,
         waste |-> IF estimated THEN ContainerWaste(s) ELSE 0,
         critical |-> IF f.at = "none" THEN Len(crit) ELSE 0,
         issues |-> IF f.at \in {"none", "store_event"} THEN issues ELSE <<>>,
         rows |-> IF stored THEN <<MetricRow(c, s)>> ELSE <<>>,
         events |-> EventRows(c, written)]

-----------------------------------------------------------------------------
(* MetricsDB: the Trend Store *)

Procs == {"loop", "adhoc"}
NoProc == "none"
NoTxn == [tbl |-> "none"]
Days == {1, 2}

\* the container each process analyses, and the arguments it passes to
\* store_metric and store_security_event for it
ContainerOf(p) == IF p = "loop" THEN "c1" ELSE "c2"

MetricArgs(p) ==
    IF p = "loop"
      THEN MetricRow("c1", [cpu_percent |-> 0, memory_usage_mb |-> 100,
                            memory_limit_mb |-> 1024, waste_cpu |-> 50, waste_mem |-> 50])
      ELSE MetricRow("c2", [cpu_percent |-> 55, memory_usage_mb |-> 900,
                            memory_limit_mb |-> 1024, waste_cpu |-> 0, waste_mem |-> 0])

EventArgs(p) ==
    IF p = "loop"
      THEN EventRow("c1", Issue("user_root", "CRITICAL", "Container running as root"))
      ELSE EventRow("c2", Issue("privileged_mode", "CRITICAL",
                                "Container running in privileged mode"))

\* container names in the order ORDER BY container_name gives them
NamesAscending == << ContainerName("c1"), ContainerName("c2") >>

\* datetime.now() (lines 71, 106): the naive local wall clock. The text
\* sqlite3 stores for it has a fixed layout, so texts compare as the clock
\* readings do; the reading stands for the text.
LocalNow(utc, offset) == utc + offset

\* datetime('now', '-' || days || ' days') (lines 82, 120): SQLite's 'now'
\* is UTC
Cutoff(utc, days) == utc - days * DayLen

\* the WHERE clause of get_history and get_waste_trend
InWindow(row, name, utc, days) ==
    /\ row.container_name = name
    /\ row.timestamp >= Cutoff(utc, days)

\* a variant that recreates the tables on every initialisation
DropAndCreate(exists, tbl) == <<>>

\* CREATE TABLE IF NOT EXISTS (lines 28-58)
CreateIfNotExists(exists, tbl) == IF exists THEN tbl ELSE <<>>

\* a variant in which writers are not serialised
CanWriteUnlocked(p) == TRUE

\* INSERT takes the write lock of the file: one writer at a time
CanWrite(p) == lock = NoProc

\* AUTOINCREMENT: the rowid the INSERT takes, computed inside the transaction
NextRowid(tbl) == Len(tbl) + 1

\* the commit writes the pending row at its rowid
WriteRow(tbl, rowid, row) ==
    IF rowid > Len(tbl) THEN Append(tbl, row) ELSE [tbl EXCEPT ![rowid] = row]

Table(name) == IF name = "metrics" THEN metrics ELSE events

IsSortedDesc(s) ==
    \A i, j \in DOMAIN s : i < j => s[i].timestamp >= s[j].timestamp

\* the sequences ORDER BY timestamp DESC may return for a set of rows (the
\* order of rows with equal timestamps is left to the engine)
OrderedDesc(rows) ==
    { s \in [1..Cardinality(rows) -> rows] :
        /\ \A i, j \in DOMAIN s : i # j => s[i] # s[j]
        /\ IsSortedDesc(s) }

RowsOf(tbl) == { tbl[i] : i \in DOMAIN tbl }

RECURSIVE SeqMax(_)
SeqMax(s) == IF Len(s) = 1 THEN s[1]
             ELSE IF Head(s) >= SeqMax(Tail(s)) THEN Head(s) ELSE SeqMax(Tail(s))
RECURSIVE SeqMin(_)
SeqMin(s) == IF Len(s) = 1 THEN s[1]
             ELSE IF Head(s) <= SeqMin(Tail(s)) THEN Head(s) ELSE SeqMin(Tail(s))
RECURSIVE WasteColumn(_)
WasteColumn(rows) ==
    IF rows = <<>> THEN <<>>
    ELSE <<Head(rows).waste_cpu_cost + Head(rows).waste_memory_cost>>
         \o WasteColumn(Tail(rows))

\* lines 109-129: the aggregate row of get_waste_trend ("or 0" for no rows)
WasteTrend(tbl, name, utc, days) ==
    LET w == WasteColumn(SelectSeq(tbl, LAMBDA r : InWindow(r, name, utc, days)))
    IN  IF w = <<>>
          THEN [avg_waste |-> [num |-> 0, den |-> 1], max_waste |-> 0,
                min_waste |-> 0, samples |-> 0]
          ELSE [avg_waste |-> [num |-> SumSeq(w), den |-> Len(w)],
                max_waste |-> SeqMax(w), min_waste |-> SeqMin(w),
                samples |-> Len(w)]

StoreIdle ==
    /\ schema = FALSE
    /\ metrics = <<>>
    /\ events = <<>>
    /\ now_utc = 0
    /\ constructed = [p \in Procs |-> FALSE]
    /\ wpc = [p \in Procs |-> "idle"]
    /\ pending = [p \in Procs |-> NoTxn]
    /\ lock = NoProc
    /\ open_conns = 0
    /\ last_call = [op |-> "none", ok |-> TRUE]
    /\ acked = {}

Ended(name, ok) == [op |-> name, ok |-> ok]

\* every call opens its own connection (sqlite3.connect in the with header)
CanConnect(p) == wpc[p] = "idle" /\ open_conns < MaxOpen

\* lines 15-58: MetricsDB(), for the first time or again on an existing file
Construct(p) ==
    /\ CanConnect(p)
    /\ schema' = TRUE
    /\ metrics' = CreateIfNotExists(schema, metrics)
    /\ events' = CreateIfNotExists(schema, events)
    /\ constructed' = [constructed EXCEPT ![p] = TRUE]
    /\ open_conns' = open_conns + 1
    /\ last_call' = Ended("_init_db", TRUE)
    /\ UNCHANGED <<now_utc, tz_offset, wpc, pending, lock, acked>>
    /\ UNCHANGED notStoreVars

\* lines 65-73 / 101-107: connect, then execute the INSERT; the row is
\* pending until the with block commits
BeginStore(p, tbl, args) ==
    /\ CanConnect(p) /\ constructed[p]
    /\ CanWrite(p)
    /\ Len(Table(tbl)) < MaxRows
    /\ LET rowid == NextRowid(Table(tbl))
           row == [x \in {"id", "timestamp"} \cup DOMAIN args |->
                     IF x = "id" THEN rowid
                     ELSE IF x = "timestamp" THEN LocalNow(now_utc, tz_offset)
                     ELSE args[x]]
       IN  pending' = [pending EXCEPT ![p] = [tbl |-> tbl, rowid |-> rowid, row |-> row]]
    /\ wpc' = [wpc EXCEPT ![p] = "txn"]
    /\ lock' = p
    /\ open_conns' = open_conns + 1
    /\ last_call' = Ended("execute", TRUE)
    /\ UNCHANGED <<schema, metrics, events, now_utc, tz_offset, constructed,
                   acked>>
    /\ UNCHANGED notStoreVars

BeginStoreMetric(p) == BeginStore(p, "metrics", MetricArgs(p))

BeginStoreEvent(p) == BeginStore(p, "security_events", EventArgs(p))

\* the with block exits normally: commit; the call returns
CommitStore(p) ==
    /\ wpc[p] = "txn"
    /\ LET t == pending[p] IN
       /\ metrics' = IF t.tbl = "metrics"
                       THEN WriteRow(metrics, t.rowid, t.row) ELSE metrics
       /\ events' = IF t.tbl = "security_events"
                      THEN WriteRow(events, t.rowid, t.row) ELSE events
       /\ acked' = acked \cup {[by |-> p, tbl |-> t.tbl, rowid |-> t.rowid,
                                 row |-> t.row]}
       /\ last_call' = Ended(IF t.tbl = "metrics" THEN "store_metric"
                             ELSE "store_security_event", TRUE)
    /\ wpc' = [wpc EXCEPT ![p] = "idle"]
    /\ pending' = [pending EXCEPT ![p] = NoTxn]
    /\ lock' = IF lock = p THEN NoProc ELSE lock
    /\ UNCHANGED <<schema, now_utc, tz_offset, constructed, open_conns>>
    /\ UNCHANGED notStoreVars

\* the write fails inside the transaction (disk full, I/O error): the with
\* block rolls back and the call raises
AbortStore(p) ==
    /\ wpc[p] = "txn"
    /\ last_call' = Ended(IF pending[p].tbl = "metrics" THEN "store_metric"
                          ELSE "store_security_event", FALSE)
    /\ wpc' = [wpc EXCEPT ![p] = "idle"]
    /\ pending' = [pending EXCEPT ![p] = NoTxn]
    /\ lock' = IF lock = p THEN NoProc ELSE lock
    /\ UNCHANGED <<schema, metrics, events, now_utc, tz_offset, constructed,
                   open_conns, acked>>
    /\ UNCHANGED notStoreVars

\* the other process holds the write lock until the busy timeout expires: the
\* INSERT raises "database is locked", nothing is written
BusyStore(p) ==
    /\ CanConnect(p) /\ constructed[p]
    /\ lock \notin {NoProc, p}
    /\ open_conns' = open_conns + 1
    /\ \E name \in {"store_metric", "store_security_event"} :
         last_call' = Ended(name, FALSE)
    /\ UNCHANGED <<schema, metrics, events, now_utc, tz_offset, constructed,
                   wpc, pending, lock, acked>>
    /\ UNCHANGED notStoreVars

\* lines 75-86
GetHistory(p) ==
    /\ CanConnect(p) /\ constructed[p]
    /\ \E name \in Range(NamesAscending), days \in Days :
         \E result \in OrderedDesc({ r \in RowsOf(metrics) :
                                       InWindow(r, name, now_utc, days) }) :
           last_call' = [op |-> "get_history", ok |-> TRUE, name |-> name,
                         days |-> days, result |-> result]
    /\ open_conns' = open_conns + 1
    /\ UNCHANGED <<schema, metrics, events, now_utc, tz_offset, constructed,
                   wpc, pending, lock, acked>>
    /\ UNCHANGED notStoreVars

\* lines 88-96
GetAllContainers(p) ==
    /\ CanConnect(p) /\ constructed[p]
    /\ last_call' = [op |-> "get_all_containers", ok |-> TRUE,
                     result |-> SelectSeq(NamesAscending,
                         LAMBDA n : \E r \in RowsOf(metrics) : r.container_name = n)]
    /\ open_conns' = open_conns + 1
    /\ UNCHANGED <<schema, metrics, events, now_utc, tz_offset, constructed,
                   wpc, pending, lock, acked>>
    /\ UNCHANGED notStoreVars

\* lines 109-129
GetWasteTrend(p) ==
    /\ CanConnect(p) /\ constructed[p]
    /\ \E name \in Range(NamesAscending), days \in Days :
         last_call' = [op |-> "get_waste_trend", ok |-> TRUE, name |-> name,
                       days |-> days,
                       result |-> WasteTrend(metrics, name, now_utc, days)]
    /\ open_conns' = open_conns + 1
    /\ UNCHANGED <<schema, metrics, events, now_utc, tz_offset, constructed,
                   wpc, pending, lock, acked>>
    /\ UNCHANGED notStoreVars

\* a read whose SELECT raises (the file is unreadable or locked for commit)
ReadFails(p) ==
    /\ CanConnect(p) /\ constructed[p]
    /\ open_conns' = open_conns + 1
    /\ \E name \in {"get_history", "get_all_containers", "get_waste_trend"} :
         last_call' = Ended(name, FALSE)
    /\ UNCHANGED <<schema, metrics, events, now_utc, tz_offset, constructed,
                   wpc, pending, lock, acked>>
    /\ UNCHANGED notStoreVars

\* No with block of database.py closes its connection: sqlite3's context
\* manager only commits or rolls back. A connection is closed when the
\* interpreter finalises the unreachable object, at a time of its choosing.
Finalize ==
    /\ open_conns > 0
    /\ open_conns > Cardinality({ p \in Procs : wpc[p] = "txn" })
    /\ open_conns' = open_conns - 1
    /\ last_call' = Ended("finalize", TRUE)
    /\ UNCHANGED <<schema, metrics, events, now_utc, tz_offset, constructed,
                   wpc, pending, lock, acked>>
    /\ UNCHANGED notStoreVars

\* the clock moves on between calls (a call is short against a clock unit)
ClockTick ==
    /\ now_utc < MaxTime
    /\ \A p \in Procs : wpc[p] = "idle"
    /\ now_utc' = now_utc + 1
    /\ last_call' = Ended("clock", TRUE)
    /\ UNCHANGED <<schema, metrics, events, tz_offset, constructed, wpc,
                   pending, lock, open_conns, acked>>
    /\ UNCHANGED notStoreVars

TzOffsets == {-1, 0, 1}

InitStore ==
    /\ StoreIdle
    /\ tz_offset \in TzOffsets

-----------------------------------------------------------------------------
(* ResourceAnalyzer._parse_stats *)

\* the fields of a raw snapshot, flattened:
\*   cpu_total      stats['cpu_stats']['cpu_usage']['total_usage']
\*   precpu_total   stats['precpu_stats']['cpu_usage']['total_usage']
\*   cpu_system     stats['cpu_stats']['system_cpu_usage']
\*   precpu_system  stats['precpu_stats']['system_cpu_usage']
\*   online_cpus    stats['cpu_stats']['online_cpus']
CounterKeys == {"cpu_total", "precpu_total", "cpu_system", "precpu_system"}
CounterValues == {0, 400, 1000}
OnlineValues == {0, 1, 2}

\* a snapshot is a dict: a field may be absent
Snapshots ==
    UNION { [ks -> CounterValues \cup OnlineValues] :
              ks \in SUBSET (CounterKeys \cup {"online_cpus"}) }

RawSnapshots ==
    { s \in Snapshots :
        /\ \A k \in DOMAIN s \cap CounterKeys : s[k] \in CounterValues
        /\ "online_cpus" \in DOMAIN s => s["online_cpus"] \in OnlineValues }

Has(s, k) == k \in DOMAIN s

\* stats['memory_stats']: a dict with 'usage', 'limit', 'max_usage', each of
\* which may be absent; amounts are in MiB (the code has bytes)
MemoryKeys == {"usage", "limit", "max_usage"}
MemoryValues == {0, 300, 1000}
MemorySnapshots == UNION { [ks -> MemoryValues] : ks \in SUBSET MemoryKeys }

\* line 102: stats['memory_stats'].get('usage', 0)
MemUsage(m) == IF Has(m, "usage") THEN m["usage"] ELSE 0

\* a variant that always doubles the usage when no limit is set
MemLimitDoubled(m) ==
    LET reported == IF Has(m, "limit") THEN m["limit"] ELSE 1
    IN  IF reported = 0 THEN MemUsage(m) * 2 ELSE reported

\* lines 103-107: the limit, substituted when the runtime reports 0
MemLimit(m) ==
    LET reported == IF Has(m, "limit") THEN m["limit"] ELSE 1
    IN  IF reported = 0
          THEN IF Has(m, "max_usage") THEN m["max_usage"] ELSE MemUsage(m) * 2
          ELSE reported

Rational(n, d) == [num |-> n, den |-> d]
Zero == Rational(0, 1)
NotParsed == [done |-> FALSE]

\* line 95: stats['cpu_stats'].get('online_cpus', 1)
OnlineCpus(s) == IF Has(s, "online_cpus") THEN s["online_cpus"] ELSE 1

\* a variant that tests the system delta alone
CpuActiveSystemOnly(cpu_delta, system_delta) == system_delta > 0

\* line 98: the guard of the CPU percent computation
CpuActive(cpu_delta, system_delta) == system_delta > 0 /\ cpu_delta > 0

\* lines 97-99
CpuPercent(cpu_delta, system_delta, online_cpus) ==
    IF CpuActive(cpu_delta, system_delta)
      THEN Rational(cpu_delta * online_cpus * 100, system_delta)
      ELSE Zero

\* line 109
MemPercent(mem_usage, mem_limit) ==
    IF mem_limit > 0 THEN Rational(mem_usage * 100, mem_limit) ELSE Zero

\* lines 87-117: a missing counter raises KeyError (lines 91-94); the
\* memory fields are read with defaults (lines 102-107)
ParseStats(s, m) ==
    IF ~(CounterKeys \subseteq DOMAIN s)
      THEN [done |-> TRUE, ok |-> FALSE, error |-> "KeyError"]
      ELSE LET cpu_delta == s["cpu_total"] - s["precpu_total"]
               system_delta == s["cpu_system"] - s["precpu_system"]
               online_cpus == OnlineCpus(s)
           IN  [done |-> TRUE, ok |-> TRUE,
                cpu_percent |-> CpuPercent(cpu_delta, system_delta, online_cpus),
                cpu_limit |-> online_cpus,
                memory_usage_bytes |-> MemUsage(m),
                memory_limit_bytes |-> MemLimit(m),
                memory_percent |-> MemPercent(MemUsage(m), MemLimit(m))]

ParseIdle ==
    /\ stats = [k \in {} |-> 0]
    /\ mem_stats = [k \in {} |-> 0]
    /\ parsed = NotParsed

-----------------------------------------------------------------------------
(* ResourceAnalyzer.collect_metrics / analyze: the waste classifier *)

MaxSamples == 2   \* samples taken by one collect_metrics call (3 in analyze)
MaxCalls == 2     \* analyze() calls followed on one analyzer object

COST_PER_CPU_HOUR == Rational(4, 100)
COST_PER_GB_HOUR == Rational(5, 1000)
HOURS_PER_MONTH == 730
WASTE_THRESHOLD_CPU == 20
WASTE_THRESHOLD_MEMORY == 30
MiBPerGiB == 1024

\* exact arithmetic on [num, den] with den > 0
RECURSIVE GCD(_, _)
GCD(a, b) == IF b = 0 THEN a ELSE GCD(b, a % b)
Abs(n) == IF n < 0 THEN -n ELSE n
Norm(n, d) ==
    LET g == GCD(Abs(n), d) IN Rational(n \div g, d \div g)
Whole(n) == Rational(n, 1)
RAdd(a, b) == Norm(a.num * b.den + b.num * a.den, a.den * b.den)
RSub(a, b) == Norm(a.num * b.den - b.num * a.den, a.den * b.den)
RMul(a, b) == Norm(a.num * b.num, a.den * b.den)
RDiv(a, b) ==
    IF b.num > 0 THEN Norm(a.num * b.den, a.den * b.num)
                 ELSE Norm(-(a.num * b.den), a.den * (-b.num))
RLess(a, b) == a.num * b.den < b.num * a.den
REq(a, b) == a.num * b.den = b.num * a.den
RMax(a, b) == IF RLess(a, b) THEN b ELSE a

\* round(x, 2) and the '.2f' / '.0f' formats: to the nearest 1/unit
RoundTo(r, unit) ==
    Rational((2 * r.num * unit + r.den) \div (2 * r.den), unit)

RECURSIVE RSum(_)
RSum(s) == IF s = <<>> THEN Whole(0) ELSE RAdd(Norm(s[1].num, s[1].den), RSum(Tail(s)))

\* statistics.mean
Mean(s) == RDiv(RSum(s), Whole(Len(s)))

\* the raw snapshots the runtime hands to one analyzer: CPU part
\* (system_delta 1000) and memory part
CpuPart(total, cores) ==
    [cpu_total |-> total, precpu_total |-> 0,
     cpu_system |-> 1000, precpu_system |-> 0, online_cpus |-> cores]

CpuParts ==
    { CpuPart(50, 2),       \* 10 % of 2 cores
      CpuPart(100, 2),      \* 20 % of 2 cores
      CpuPart(200, 2),      \* 40 % of 2 cores
      CpuPart(50, 0),       \* the runtime reports 0 online cores
      [cpu_total |-> 10, precpu_total |-> 0,
       cpu_system |-> 1000, precpu_system |-> 0],   \* 1 %, no core count
      [cpu_total |-> 10, precpu_total |-> 0] }      \* no system counters

MemoryParts ==
    { [usage |-> 300, limit |-> 1000],      \* 30 %
      [usage |-> 100, limit |-> 1000],      \* 10 %
      [usage |-> 600, limit |-> 1000],      \* 60 %
      [usage |-> 2400, limit |-> 8000],     \* 30 % of a larger limit
      [usage |-> 0, limit |-> 0] }          \* no limit set, nothing used

WindowSnapshots == CpuParts \X MemoryParts

RawWindows(n) == [1..n -> WindowSnapshots]

\* lines 71-85: the samples that parsed, in order; a failed one is skipped
RECURSIVE CollectFrom(_)
CollectFrom(raws) ==
    IF raws = <<>> THEN <<>>
    ELSE LET metric == ParseStats(raws[1][1], raws[1][2])
         IN  (IF metric.ok THEN <<metric>> ELSE <<>>) \o CollectFrom(Tail(raws))

Column(h, field) == [i \in 1..Len(h) |-> h[i][field]]
IntColumn(h, field) == [i \in 1..Len(h) |-> Whole(h[i][field])]

\* lines 152, 177: strictly below the threshold
IsWaste(avg, threshold) == RLess(avg, Whole(threshold))

\* a variant that stores the unrounded cost
MonthlyCostExact(wasted, rate) == RMul(RMul(wasted, rate), Whole(HOURS_PER_MONTH))

\* lines 159/170 and 187/198: round(wasted * rate * HOURS_PER_MONTH, 2)
MonthlyCost(wasted, rate) ==
    RoundTo(RMul(RMul(wasted, rate), Whole(HOURS_PER_MONTH)), 100)

\* lines 154-172; cpu_limit # 0
CpuFinding(avg_cpu_percent, cpu_limit) ==
    LET cpu_used == RMul(RDiv(avg_cpu_percent, Whole(100)), Whole(cpu_limit))
        cpu_wasted == RSub(Whole(cpu_limit), cpu_used)
    IN  [resource_type |-> "cpu",
         allocated |-> Whole(cpu_limit),
         used |-> cpu_used,
         waste_percent |-> RMul(RDiv(cpu_wasted, Whole(cpu_limit)), Whole(100)),
         waste_amount |-> cpu_wasted,
         monthly_cost_waste |-> MonthlyCost(cpu_wasted, COST_PER_CPU_HOUR),
         recommended |-> RoundTo(RMax(Rational(1, 4),
                                      RMul(cpu_used, Rational(3, 2))), 100)]

\* lines 179-200
MemoryFinding(avg_mem_usage_bytes, mem_limit_gb) ==
    LET mem_used_gb == RDiv(avg_mem_usage_bytes, Whole(MiBPerGiB))
        mem_wasted_gb == RSub(mem_limit_gb, mem_used_gb)
    IN  [resource_type |-> "memory",
         allocated |-> mem_limit_gb,
         used |-> mem_used_gb,
         waste_percent |-> IF mem_limit_gb.num > 0
                             THEN RMul(RDiv(mem_wasted_gb, mem_limit_gb), Whole(100))
                             ELSE Whole(0),
         waste_amount |-> mem_wasted_gb,
         monthly_cost_waste |-> MonthlyCost(mem_wasted_gb, COST_PER_GB_HOUR),
         recommended |-> RoundTo(RMax(Whole(128),
                                      RMul(RMul(mem_used_gb, Rational(3, 2)),
                                           Whole(MiBPerGiB))), 1)]

Returned(wastes) == [ok |-> TRUE, wastes |-> wastes, error |-> "none"]
Raised(error) == [ok |-> FALSE, wastes |-> <<>>, error |-> error]
NoWaste == [k \in {} |-> 0]

\* lines 134-202 on a non-empty window h; line 156 divides by cpu_limit
Classify(h) ==
    LET avg_cpu_percent == Mean(Column(h, "cpu_percent"))
        avg_mem_percent == Mean(Column(h, "memory_percent"))
        cpu_limit == h[1].cpu_limit
        mem_limit_gb == RDiv(Whole(h[1].memory_limit_bytes), Whole(MiBPerGiB))
        cpu == IsWaste(avg_cpu_percent, WASTE_THRESHOLD_CPU)
        mem == IsWaste(avg_mem_percent, WASTE_THRESHOLD_MEMORY)
        keys == (IF cpu THEN {"cpu"} ELSE {}) \cup (IF mem THEN {"memory"} ELSE {})
    IN  IF cpu /\ cpu_limit = 0
          THEN Raised("ZeroDivisionError")
          ELSE Returned([k \in keys |->
                 IF k = "cpu"
                   THEN CpuFinding(avg_cpu_percent, cpu_limit)
                   ELSE MemoryFinding(Mean(IntColumn(h, "memory_usage_bytes")),
                                      mem_limit_gb)])

\* a variant that samples again on every call
NeedsCollectAlways(h) == TRUE

\* line 128: if not self.metrics_history
NeedsCollect(h) == h = <<>>

\* lines 131-132 and 134-202
AnalyzeWindow(h) == IF h = <<>> THEN Returned(NoWaste) ELSE Classify(h)

\* no collect_metrics call is in progress
NotCollecting ==
    [pc |-> "idle", caller |-> "none", requested |-> 0, taken |-> 0,
     partial |-> <<>>, before |-> <<>>, calls_before |-> 0]

\* no fix script was generated
NoScript ==
    [done |-> FALSE, wastes |-> NoWaste,
     memory |-> [set |-> FALSE, mb |-> 0],
     cpus |-> [set |-> FALSE, value |-> Whole(0)],
     user |-> FALSE, readonly |-> FALSE, savings |-> Whole(0)]

AnalyzerIdle ==
    /\ metrics_history = <<>>
    /\ analyses = <<>>
    /\ collecting = NotCollecting
    /\ script = NoScript

\* collect_metrics(samples = n) called on the new analyzer (monitor.py
\* line 98), the runtime answering with the snapshots raws
CollectMetrics ==
    /\ metrics_history = <<>>
    /\ analyses = <<>>
    /\ \E n \in 1..MaxSamples : \E raws \in RawWindows(n) :
         metrics_history' = CollectFrom(raws)
    /\ UNCHANGED <<analyses, collecting, script>>
    /\ UNCHANGED notAnalyzerVars

\* one analyze() call, with the samples it takes when the window is empty
AnalyzeCall(raws) ==
    LET collects == NeedsCollect(metrics_history)
        window == IF collects THEN CollectFrom(raws) ELSE metrics_history
    IN  /\ metrics_history' = window
        /\ analyses' = Append(analyses,
               [before |-> metrics_history,
                collected |-> collects,
                sampled |-> IF collects THEN Len(raws) ELSE 0,
                after |-> window,
                outcome |-> AnalyzeWindow(window)])

Analyze ==
    /\ Len(analyses) < MaxCalls
    /\ IF NeedsCollect(metrics_history)
         THEN \E raws \in RawWindows(MaxSamples) : AnalyzeCall(raws)
         ELSE AnalyzeCall(<<>>)
    /\ UNCHANGED <<collecting, script>>
    /\ UNCHANGED notAnalyzerVars

\* ---- FixGenerator.generate_script (generators/fixes.py) ----

\* int(x): truncation towards zero
Trunc(r) == IF r.num >= 0 THEN r.num \div r.den ELSE -((-r.num) \div r.den)

\* fixes.py line 40: int(w.used * 1.5), w.used being the finding's used GB
ScriptMemoryMb(w) == Trunc(RMul(w.used, Rational(3, 2)))

\* fixes.py lines 47, 85: max(0.25, w.used * 1.5), written with two decimals
ScriptCpus(w) == RoundTo(RMax(Rational(1, 4), RMul(w.used, Rational(3, 2))), 100)

\* fixes.py lines 32-62 and 82-90: the flags of the docker run line
FixScript(wastes, names) ==
    [done |-> TRUE, wastes |-> wastes,
     memory |-> IF "memory" \in DOMAIN wastes
                  THEN [set |-> TRUE, mb |-> ScriptMemoryMb(wastes["memory"])]
                  ELSE [set |-> FALSE, mb |-> 0],
     cpus |-> IF "cpu" \in DOMAIN wastes
                THEN [set |-> TRUE, value |-> ScriptCpus(wastes["cpu"])]
                ELSE [set |-> FALSE, value |-> Whole(0)],
     user |-> "user_root" \in names,
     readonly |-> "writable_rootfs" \in names,
     savings |-> RAdd(IF "memory" \in DOMAIN wastes
                        THEN wastes["memory"].monthly_cost_waste ELSE Whole(0),
                      IF "cpu" \in DOMAIN wastes
                        THEN wastes["cpu"].monthly_cost_waste ELSE Whole(0))]

\* cli.py lines 145-146: generate_script(container_name, wastes, issues)
\* on the findings analyze returned; names are the checks among the issues
GenerateScript ==
    /\ analyses # <<>>
    /\ analyses[Len(analyses)].outcome.ok
    /\ \E names \in SUBSET {"user_root", "writable_rootfs"} :
         script' = FixScript(analyses[Len(analyses)].outcome.wastes, names)
    /\ UNCHANGED <<metrics_history, analyses, collecting>>
    /\ UNCHANGED notAnalyzerVars

\* ---- collect_metrics sample by sample, with the wait between samples ----

\* a variant that keeps what was sampled before the interruption
KeepPartial(stored, partial) == partial

\* line 84 is not reached when time.sleep (line 79) is interrupted:
\* self.metrics_history keeps its value
WindowAfterCancel(stored, partial) == stored

\* lines 69-72: collect_metrics(samples = n) starts on a new analyzer,
\* called directly or by analyze (line 129)
BeginCollect(caller, n) ==
    /\ collecting.pc = "idle"
    /\ metrics_history = <<>>
    /\ collecting' = [pc |-> "sample", caller |-> caller, requested |-> n,
                      taken |-> 0, partial |-> <<>>,
                      before |-> metrics_history,
                      calls_before |-> Len(analyses)]
    /\ UNCHANGED <<metrics_history, analyses>>
    /\ UNCHANGED script
    /\ UNCHANGED notAnalyzerVars

BeginCollectMetrics ==
    /\ analyses = <<>>
    /\ \E n \in 1..MaxSamples : BeginCollect("collect_metrics", n)

BeginAnalyze ==
    /\ Len(analyses) < MaxCalls
    /\ NeedsCollect(metrics_history)
    /\ BeginCollect("analyze", MaxSamples)

\* lines 73-85: one pass of the for loop; a sample that fails is skipped
\* without a wait, the last pass stores the window (line 84) and, under
\* analyze, the window is classified (lines 131-202)
TakeSample ==
    /\ collecting.pc = "sample"
    /\ \E raw \in WindowSnapshots :
         LET metric == ParseStats(raw[1], raw[2])
             partial == IF metric.ok THEN Append(collecting.partial, metric)
                                     ELSE collecting.partial
             taken == collecting.taken + 1
         IN  IF taken = collecting.requested
               THEN /\ metrics_history' = partial
                    /\ collecting' = NotCollecting
                    /\ analyses' =
                         IF collecting.caller = "analyze"
                           THEN Append(analyses,
                                  [before |-> collecting.before,
                                   collected |-> TRUE,
                                   sampled |-> collecting.requested,
                                   after |-> partial,
                                   outcome |-> AnalyzeWindow(partial)])
                           ELSE analyses
               ELSE /\ collecting' = [collecting EXCEPT
                                        !.pc = IF metric.ok THEN "wait" ELSE "sample",
                                        !.taken = taken,
                                        !.partial = partial]
                    /\ UNCHANGED <<metrics_history, analyses>>
    /\ UNCHANGED script
    /\ UNCHANGED notAnalyzerVars

\* line 79: time.sleep(interval) returns
WakeCollect ==
    /\ collecting.pc = "wait"
    /\ collecting' = [collecting EXCEPT !.pc = "sample"]
    /\ UNCHANGED <<metrics_history, analyses>>
    /\ UNCHANGED script
    /\ UNCHANGED notAnalyzerVars

\* line 79: time.sleep(interval) is interrupted (KeyboardInterrupt is not
\* an Exception, line 80 does not catch it): the call and its callers unwind
CancelCollect ==
    /\ collecting.pc = "wait"
    /\ collecting' = [collecting EXCEPT !.pc = "cancelled"]
    /\ metrics_history' = WindowAfterCancel(metrics_history, collecting.partial)
    /\ UNCHANGED <<analyses, script>>
    /\ UNCHANGED notAnalyzerVars

\* analyze on the window the object holds
AnalyzeStored ==
    /\ collecting.pc = "idle"
    /\ ~NeedsCollect(metrics_history)
    /\ Analyze

-----------------------------------------------------------------------------
(* SecurityAnalyzer: the eight checks and analyze *)

\* a field of the inspect data: absent, present and null, or present
Absent(default) == [state |-> "absent", value |-> default]
Null(default) == [state |-> "null", value |-> default]
Val(v) == [state |-> "value", value |-> v]

\* dict.get(key, default): None for a null field
IsNone(field) == field.state = "null"
Get(field, default) == IF field.state = "absent" THEN default ELSE field.value

\* field or default
OrElse(field, default) == IF field.state = "value" THEN field.value ELSE default

SecurityIssue(check_name, severity, title) ==
    [check_name |-> check_name, severity |-> severity, title |-> title]

Passed(issues) == [ok |-> TRUE, issues |-> issues, error |-> "none"]
Failed(error) == [ok |-> FALSE, issues |-> <<>>, error |-> error]

RECURSIVE Flatten(_)
Flatten(ss) == IF ss = <<>> THEN <<>> ELSE ss[1] \o Flatten(Tail(ss))

\* ---- the configuration snapshots ----
UserFields ==
    {Absent(""), Val(""), Val("root"), Val("0"), Val("0:0"), Val("1000")}

PortEntry(key, bindings) == [key |-> key, bindings |-> bindings]
PortTables ==
    { Null(<<>>),
      Val(<<>>),
      Val(<<PortEntry("22/tcp", Val(<<"0.0.0.0">>))>>),
      Val(<<PortEntry("8080/tcp", Val(<<"", "127.0.0.1">>)),
            PortEntry("22/tcp", Val(<<"0.0.0.0", "0.0.0.0">>))>>),
      Val(<<PortEntry("3306/tcp", Null(<<>>)),
            PortEntry("8080/tcp", Val(<<"127.0.0.1">>))>>),
      Val(<<PortEntry("8080/tcp", Val(<<"0.0.0.0">>)),
            PortEntry("3306/tcp", Val(<<"192.168.1.5">>))>>) }

CapFields ==
    {Null({}), Val({"CHOWN"}), Val({"SYS_ADMIN"}), Val({"ALL", "NET_ADMIN"})}

EnvFields ==
    { Absent(<<>>), Null(<<>>),
      Val(<<"PATH=/bin", "DEBUG">>),
      Val(<<"DB_PASSWORD=s3cret", "API_KEY=changeme", "AUTH_TOKEN=abc">>) }

SecurityOptFields ==
    { Absent(<<>>), Null(<<>>), Val(<<>>),
      Val(<<"apparmor=unconfined">>),
      Val(<<"seccomp=unconfined">>),
      Val(<<"seccomp=unconfined", "apparmor=unconfined">>) }

SecurityConfigs ==
    [User : UserFields, Ports : PortTables, CapAdd : CapFields,
     Privileged : BOOLEAN, Env : EnvFields, ReadonlyRootfs : BOOLEAN,
     SecurityOpt : SecurityOptFields]

\* client.images.get(...) and the image's age, at one evaluation
ImageLookups ==
    { [ok |-> FALSE, age_days |-> 0], [ok |-> TRUE, age_days |-> 100],
      [ok |-> TRUE, age_days |-> 200], [ok |-> TRUE, age_days |-> 400] }

\* ---- the checks ----
SeverityOrder(severity) ==
    CASE severity = "CRITICAL" -> 0
      [] severity = "HIGH" -> 1
      [] severity = "MEDIUM" -> 2
      [] severity = "LOW" -> 3
      [] severity = "INFO" -> 4

\* a variant that knows the user root by its name only
CheckUserNamedRoot(cfg) ==
    IF ~IsNone(cfg.User) /\ Get(cfg.User, "") = "root"
      THEN Passed(<<SecurityIssue("user_root", "CRITICAL",
                                  "Container running as root")>>)
      ELSE Passed(<<>>)

\* lines 112-127
CheckUser(cfg) ==
    IF ~IsNone(cfg.User) /\ Get(cfg.User, "") \in {"", "root", "0", "0:0"}
      THEN Passed(<<SecurityIssue("user_root", "CRITICAL",
                                  "Container running as root")>>)
      ELSE Passed(<<>>)

\* line 139: int(container_port.split('/')[0])
PortNum(key) ==
    CASE key = "22/tcp" -> 22
      [] key = "3306/tcp" -> 3306
      [] key = "8080/tcp" -> 8080

SENSITIVE_PORTS == {22, 3306, 5432, 6379, 27017, 9200, 5984, 3389}

ServiceName(port_num) ==
    CASE port_num = 22 -> "SSH"
      [] port_num = 3306 -> "MySQL"
      [] port_num = 5432 -> "PostgreSQL"
      [] port_num = 6379 -> "Redis"
      [] port_num = 27017 -> "MongoDB"
      [] port_num = 9200 -> "Elasticsearch"
      [] port_num = 5984 -> "CouchDB"
      [] port_num = 3389 -> "RDP"

\* a variant that reports a published port once, whatever its bindings
OneIssuePerPort(port_num, bindings) ==
    IF \E i \in 1..Len(bindings) : bindings[i] \in {"0.0.0.0", ""}
      THEN IF port_num \in SENSITIVE_PORTS
             THEN <<SecurityIssue("public_port_exposure", "CRITICAL",
                      ServiceName(port_num) \o " exposed to internet")>>
             ELSE <<SecurityIssue("public_port_exposure", "HIGH",
                      "Port " \o ToString(port_num) \o " exposed to internet")>>
      ELSE <<>>

\* lines 142-165: the issues of one port's bindings, in order
BindingIssues(port_num, bindings) ==
    Flatten([i \in 1..Len(bindings) |->
        IF bindings[i] \in {"0.0.0.0", ""}
          THEN IF port_num \in SENSITIVE_PORTS
                 THEN <<SecurityIssue("public_port_exposure", "CRITICAL",
                          ServiceName(port_num) \o " exposed to internet")>>
                 ELSE <<SecurityIssue("public_port_exposure", "HIGH",
                          "Port " \o ToString(port_num) \o " exposed to internet")>>
          ELSE <<>>])

\* lines 129-167
CheckExposedPorts(cfg) ==
    LET ports == OrElse(cfg.Ports, <<>>)
    IN  Passed(Flatten([i \in 1..Len(ports) |->
            IF OrElse(ports[i].bindings, <<>>) = <<>>
              THEN <<>>
              ELSE BindingIssues(PortNum(ports[i].key), ports[i].bindings.value)]))

DANGEROUS_CAPS ==
    {"ALL", "SYS_ADMIN", "NET_ADMIN", "SYS_PTRACE", "SYS_MODULE", "DAC_OVERRIDE"}

\* line 178: ', '.join(sorted(dangerous))
CapsList(dangerous) ==
    CASE dangerous = {"SYS_ADMIN"} -> "SYS_ADMIN"
      [] dangerous = {"ALL", "NET_ADMIN"} -> "ALL, NET_ADMIN"

\* lines 169-197
CheckCapabilities(cfg) ==
    LET dangerous == OrElse(cfg.CapAdd, {}) \cap DANGEROUS_CAPS
    IN  IF dangerous = {} THEN Passed(<<>>)
        ELSE IF "ALL" \in dangerous
          THEN Passed(<<SecurityIssue("dangerous_capabilities", "CRITICAL",
                                      "All capabilities granted")>>)
          ELSE Passed(<<SecurityIssue("dangerous_capabilities", "HIGH",
                          "Dangerous capabilities: " \o CapsList(dangerous))>>)

\* lines 199-211
CheckPrivileged(cfg) ==
    IF cfg.Privileged
      THEN Passed(<<SecurityIssue("privileged_mode", "CRITICAL",
                                  "Container running in privileged mode")>>)
      ELSE Passed(<<>>)

\* lines 228-237 on the modelled entries: key, value and whether the key
\* holds one of the secret patterns
EnvHasEq(env) == env # "DEBUG"
EnvKey(env) ==
    CASE env = "PATH=/bin" -> "PATH"
      [] env = "DB_PASSWORD=s3cret" -> "DB_PASSWORD"
      [] env = "API_KEY=changeme" -> "API_KEY"
      [] env = "AUTH_TOKEN=abc" -> "AUTH_TOKEN"
EnvValue(env) ==
    CASE env = "PATH=/bin" -> "/bin"
      [] env = "DB_PASSWORD=s3cret" -> "s3cret"
      [] env = "API_KEY=changeme" -> "changeme"
      [] env = "AUTH_TOKEN=abc" -> "abc"
IsSecretName(key) == key \in {"DB_PASSWORD", "API_KEY", "AUTH_TOKEN"}

\* lines 213-247: iterating a null Env raises TypeError
CheckSecretsInEnv(cfg) ==
    IF IsNone(cfg.Env) THEN Failed("TypeError")
    ELSE LET env_vars == Get(cfg.Env, <<>>)
         IN  Passed(Flatten([i \in 1..Len(env_vars) |->
                 IF /\ EnvHasEq(env_vars[i])
                    /\ IsSecretName(EnvKey(env_vars[i]))
                    /\ EnvValue(env_vars[i]) \notin {"", "changeme", "TODO", "xxx"}
                   THEN <<SecurityIssue("secret_in_env", "MEDIUM",
                            "Potential secret in env: " \o EnvKey(env_vars[i]))>>
                   ELSE <<>>]))

\* lines 249-261
CheckReadonlyRootfs(cfg) ==
    IF ~cfg.ReadonlyRootfs
      THEN Passed(<<SecurityIssue("writable_rootfs", "LOW",
                                  "Root filesystem is writable")>>)
      ELSE Passed(<<>>)

Contains(list, x) == \E i \in 1..Len(list) : list[i] = x

\* lines 263-290: 'x in sec_opts' on a null SecurityOpt raises TypeError
CheckSecurityOpts(cfg) ==
    IF IsNone(cfg.SecurityOpt) THEN Failed("TypeError")
    ELSE LET sec_opts == Get(cfg.SecurityOpt, <<>>)
         IN  Passed(
               (IF Contains(sec_opts, "apparmor=unconfined")
                  THEN <<SecurityIssue("apparmor_disabled", "MEDIUM",
                                       "AppArmor disabled")>>
                  ELSE <<>>)
               \o
               (IF Contains(sec_opts, "seccomp=unconfined")
                  THEN <<SecurityIssue("seccomp_disabled", "HIGH",
                                       "Seccomp disabled")>>
                  ELSE <<>>))

\* lines 292-327: any error of the lookup is swallowed
CheckImageAge(image) ==
    IF image.ok /\ image.age_days > 180
      THEN Passed(<<SecurityIssue("outdated_image",
                      IF image.age_days > 365 THEN "MEDIUM" ELSE "LOW",
                      "Image is " \o ToString(image.age_days) \o " days old")>>)
      ELSE Passed(<<>>)

\* lines 91-98: the checks in the order analyze runs them
Checks(cfg, image) ==
    << CheckUser(cfg), CheckExposedPorts(cfg), CheckCapabilities(cfg),
       CheckPrivileged(cfg), CheckSecretsInEnv(cfg), CheckReadonlyRootfs(cfg),
       CheckSecurityOpts(cfg), CheckImageAge(image) >>

\* insert x behind the issues that are at least as severe
RECURSIVE InsertBySeverity(_, _)
InsertBySeverity(sorted, x) ==
    IF sorted = <<>> THEN <<x>>
    ELSE IF SeverityOrder(Head(sorted).severity) <= SeverityOrder(x.severity)
      THEN <<Head(sorted)>> \o InsertBySeverity(Tail(sorted), x)
      ELSE <<x>> \o sorted

RECURSIVE StableSort(_, _)
StableSort(sorted, rest) ==
    IF rest = <<>> THEN sorted
    ELSE StableSort(InsertBySeverity(sorted, Head(rest)), Tail(rest))

\* a variant that returns the issues as the checks emitted them
KeepEmissionOrder(issues) == issues

\* lines 101-108: issues.sort(key = severity_order), a stable sort
SortBySeverity(issues) == StableSort(<<>>, issues)

\* lines 81-110: a check that raises ends analyze with its error
AnalyzeSecurity(cfg, image) ==
    LET checks == Checks(cfg, image)
    IN  IF \E i \in 1..Len(checks) : ~checks[i].ok
          THEN Failed(checks[CHOOSE i \in 1..Len(checks) :
                        /\ ~checks[i].ok
                        /\ \A j \in 1..(i - 1) : checks[j].ok].error)
          ELSE Passed(SortBySeverity(
                 Flatten([i \in 1..Len(checks) |-> checks[i].issues])))

CleanConfig ==
    [User |-> Val("1000"), Ports |-> Val(<<>>), CapAdd |-> Null({}),
     Privileged |-> FALSE, Env |-> Absent(<<>>), ReadonlyRootfs |-> TRUE,
     SecurityOpt |-> Absent(<<>>)]

NotEvaluated ==
    [done |-> FALSE, image |-> [ok |-> FALSE, age_days |-> 0],
     outcome |-> Passed(<<>>)]

SecurityIdle ==
    /\ inspect = CleanConfig
    /\ evaluation = NotEvaluated
    /\ previous = NotEvaluated

\* SecurityAnalyzer.analyze, the image lookup answering with image
Evaluate ==
    /\ \E image \in ImageLookups :
         evaluation' = [done |-> TRUE, image |-> image,
                        outcome |-> AnalyzeSecurity(inspect, image)]
    /\ previous' = evaluation
    /\ UNCHANGED inspect
    /\ UNCHANGED notSecurityVars

-----------------------------------------------------------------------------
(* ContainerMonitor.run / _scan_all_containers *)

\* a variant in which the first failure ends the for loop
AbortLoopAfterError(i, n) == n + 1

\* lines 80-81: the except clause logs and the for loop goes on
IndexAfterError(i, n) == i + 1

\* line 89: the alert condition
AlertCondition(total, threshold) == total > threshold

LoopIdle ==
    /\ pc = "tick"
    /\ exit_cause = "none"
    /\ scan_count = 0
    /\ containers = <<>>
    /\ idx = 1
    /\ total_waste = 0
    /\ critical_count = 0
    /\ summarised = FALSE
    /\ alerted = FALSE
    /\ tick_metrics = <<>>
    /\ tick_events = <<>>
    /\ tick_log = <<>>

\* lines 22-38: ContainerMonitor(interval_seconds, alert_threshold)
Init ==
    /\ LoopIdle
    /\ alert_threshold \in Thresholds
    /\ StoreIdle
    /\ tz_offset = 0
    /\ ParseIdle
    /\ AnalyzerIdle
    /\ SecurityIdle

\* lines 51-52, 63-73: a tick starts and lists the running containers
TickBegin(list) ==
    /\ scan_count' = scan_count + 1
    /\ containers' = list
    /\ idx' = 1
    /\ total_waste' = 0
    /\ critical_count' = 0
    /\ summarised' = FALSE
    /\ alerted' = FALSE
    /\ tick_metrics' = <<>>
    /\ tick_events' = <<>>
    /\ tick_log' = <<>>

\* line 66 raises (the runtime API is unreachable): nothing in
\* _scan_all_containers or run catches it, run() is left
StartTickListFails ==
    /\ pc = "tick" /\ scan_count < MaxScans
    /\ TickBegin(<<>>)
    /\ pc' = "exited"
    /\ exit_cause' = "APIError"
    /\ UNCHANGED alert_threshold
    /\ UNCHANGED notLoopVars

\* lines 68-70: no running containers, the tick returns at once
StartTickEmpty ==
    /\ pc = "tick" /\ scan_count < MaxScans
    /\ TickBegin(<<>>)
    /\ pc' = "sleep"
    /\ UNCHANGED <<exit_cause, alert_threshold>>
    /\ UNCHANGED notLoopVars

StartTickScan ==
    /\ pc = "tick" /\ scan_count < MaxScans
    /\ \E list \in ContainerLists \ {<<>>} : TickBegin(list)
    /\ pc' = "scan"
    /\ UNCHANGED <<exit_cause, alert_threshold>>
    /\ UNCHANGED notLoopVars

\* lines 75-81: one iteration of the for loop
ScanContainer ==
    /\ pc = "scan" /\ idx <= Len(containers)
    /\ \E s \in Samples, issues \in IssueLists :
         \E f \in Failures(issues) :
           LET r == AnalyzeContainer(containers[idx], s, issues, f) IN
           /\ tick_metrics' = tick_metrics \o r.rows
           /\ tick_events' = tick_events \o r.events
           /\ tick_log' = Append(tick_log, r)
           /\ IF r.returned
                THEN /\ total_waste' = total_waste + r.waste
                     /\ critical_count' = critical_count + r.critical
                     /\ idx' = idx + 1
                ELSE /\ UNCHANGED <<total_waste, critical_count>>
                     /\ idx' = IndexAfterError(idx, Len(containers))
    /\ UNCHANGED <<pc, exit_cause, scan_count, alert_threshold, containers,
                   summarised, alerted>>
    /\ UNCHANGED notLoopVars

\* lines 83-90: summary and alert
Summary ==
    /\ pc = "scan" /\ idx > Len(containers)
    /\ summarised' = TRUE
    /\ alerted' = AlertCondition(total_waste, alert_threshold)
    /\ pc' = "sleep"
    /\ UNCHANGED <<exit_cause, scan_count, alert_threshold, containers, idx,
                   total_waste, critical_count, tick_metrics, tick_events, tick_log>>
    /\ UNCHANGED notLoopVars

\* line 55: time.sleep(interval) returns, the while loop goes round
Wake ==
    /\ pc = "sleep"
    /\ pc' = "tick"
    /\ UNCHANGED <<exit_cause, scan_count, alert_threshold, containers, idx,
                   total_waste, critical_count, summarised, alerted,
                   tick_metrics, tick_events, tick_log>>
    /\ UNCHANGED notLoopVars

\* lines 57-59: Ctrl+C, at any point of the loop
Cancel ==
    /\ pc # "exited"
    /\ pc' = "exited"
    /\ exit_cause' = "KeyboardInterrupt"
    /\ UNCHANGED <<scan_count, alert_threshold, containers, idx,
                   total_waste, critical_count, summarised, alerted,
                   tick_metrics, tick_events, tick_log>>
    /\ UNCHANGED notLoopVars

Next ==
    \/ StartTickListFails
    \/ StartTickEmpty
    \/ StartTickScan
    \/ ScanContainer
    \/ Summary
    \/ Wake
    \/ Cancel

Spec == Init /\ [][Next]_vars

-----------------------------------------------------------------------------
(* The Trend Store used by the monitoring loop and an ad-hoc process *)

\* one instant on one host: the clock does not move
InitStoreSpec ==
    /\ StoreIdle
    /\ tz_offset = 0
    /\ LoopIdle
    /\ alert_threshold = 100
    /\ ParseIdle
    /\ AnalyzerIdle
    /\ SecurityIdle

InitHistorySpec ==
    /\ InitStore
    /\ LoopIdle
    /\ alert_threshold = 100
    /\ ParseIdle
    /\ AnalyzerIdle
    /\ SecurityIdle

NextStore ==
    \/ Finalize
    \/ \E p \in Procs :
         \/ Construct(p)
         \/ BeginStoreMetric(p)
         \/ BeginStoreEvent(p)
         \/ CommitStore(p)
         \/ AbortStore(p)
         \/ BusyStore(p)
         \/ GetHistory(p)
         \/ GetAllContainers(p)
         \/ GetWasteTrend(p)
         \/ ReadFails(p)

SpecStore == InitStoreSpec /\ [][NextStore]_vars

\* the store over time: records are written and read back as the clock runs
NextHistory ==
    \/ ClockTick
    \/ Finalize
    \/ \E p \in Procs :
         \/ Construct(p)
         \/ BeginStoreMetric(p)
         \/ CommitStore(p)
         \/ GetHistory(p)

SpecHistory == InitHistorySpec /\ [][NextHistory]_vars

-----------------------------------------------------------------------------
(* The snapshot parser applied to one raw snapshot *)

InitParse ==
    /\ stats \in RawSnapshots
    /\ mem_stats \in MemorySnapshots
    /\ AnalyzerIdle
    /\ SecurityIdle
    /\ parsed = NotParsed
    /\ LoopIdle
    /\ alert_threshold = 100
    /\ StoreIdle
    /\ tz_offset = 0

\* line 75: metric = self._parse_stats(stats)
Parse ==
    /\ ~parsed.done
    /\ parsed' = ParseStats(stats, mem_stats)
    /\ UNCHANGED <<stats, mem_stats>>
    /\ UNCHANGED notParseVars

NextParse == Parse

SpecParse == InitParse /\ [][NextParse]_vars

-----------------------------------------------------------------------------
(* One ResourceAnalyzer object: its window is collected and analysed *)

InitAnalyze ==
    /\ AnalyzerIdle
    /\ SecurityIdle
    /\ ParseIdle
    /\ LoopIdle
    /\ alert_threshold = 100
    /\ StoreIdle
    /\ tz_offset = 0

NextAnalyze == CollectMetrics \/ Analyze \/ GenerateScript

SpecAnalyze == InitAnalyze /\ [][NextAnalyze]_vars

NextCollect ==
    \/ BeginCollectMetrics
    \/ BeginAnalyze
    \/ TakeSample
    \/ WakeCollect
    \/ CancelCollect
    \/ AnalyzeStored

SpecCollect == InitAnalyze /\ [][NextCollect]_vars

-----------------------------------------------------------------------------
(* One SecurityAnalyzer object evaluating its configuration snapshot *)

InitSecurity ==
    /\ inspect \in SecurityConfigs
    /\ evaluation = NotEvaluated
    /\ previous = NotEvaluated
    /\ AnalyzerIdle
    /\ ParseIdle
    /\ LoopIdle
    /\ alert_threshold = 100
    /\ StoreIdle
    /\ tz_offset = 0

NextSecurity == Evaluate

SpecSecurity == InitSecurity /\ [][NextSecurity]_vars

-----------------------------------------------------------------------------
(* Claims about the monitoring loop, checked under Spec *)

TickEnded == pc = "sleep"

RECURSIVE WasteWhere(_, _)
\* the sum of the waste estimates of the log entries whose failure point is in S
WasteWhere(log, S) ==
    IF log = <<>> THEN 0
    ELSE (IF Head(log).failed_at \in S /\ Head(log).estimated
            THEN Head(log).waste ELSE 0) + WasteWhere(Tail(log), S)

MetricsOf(c) == SelectSeq(tick_metrics, LAMBDA r : r.container_id = c)
EventsOf(c) == SelectSeq(tick_events, LAMBDA r : r.container_id = c)
CriticalOf(issues) == SelectSeq(issues, LAMBDA i : i.severity = "CRITICAL")

\* C1: when a tick over a non-empty container list has ended, every container
\* of the list was processed in order, every container whose analysis raised
\* no error has its metrics row written and its waste in the tick total, and
\* the tick went through its summary/alert step, whatever subset of the
\* containers failed.
C1_FailureIsolation ==
    (TickEnded /\ containers # <<>>) =>
        /\ summarised
        /\ Len(tick_log) = Len(containers)
        /\ \A i \in DOMAIN containers :
             /\ tick_log[i].container = containers[i]
             /\ tick_log[i].returned =>
                  /\ Len(MetricsOf(containers[i])) = 1
                  /\ MetricsOf(containers[i])[1].waste_cpu_cost
                       + MetricsOf(containers[i])[1].waste_memory_cost
                     = tick_log[i].waste
        /\ total_waste = WasteWhere(tick_log, {"none"})

\* a finished tick in which an earlier container failed and a later one was
\* analysed
C1_Witness ==
    /\ TickEnded /\ summarised
    /\ \E i, j \in DOMAIN tick_log :
         /\ i < j
         /\ ~tick_log[i].returned
         /\ tick_log[j].returned
         /\ tick_log[j].waste > 0

\* C2: the loop is left only on the external cancellation signal: no error
\* raised inside a tick ends it.
C2_LoopLeftOnlyOnCancel ==
    pc = "exited" => exit_cause = "KeyboardInterrupt"

\* C3: at the end of a tick the alert is emitted if and only if the sum, over
\* the containers of the tick, of their estimated monthly waste is strictly
\* greater than the alert threshold.
C3_AlertIffWasteExceeds ==
    TickEnded => (alerted <=> SumSeq(MapWaste(tick_log)) > alert_threshold)

\* C4: for each container analysed in a tick, the security_events rows written
\* for it are exactly one row per CRITICAL issue, in order, carrying the
\* issue's severity, check name and title; none is written for another
\* severity; and the critical count returned equals the number of rows.
C4_OnlyCriticalPersisted ==
    /\ \A j \in DOMAIN tick_events : tick_events[j].severity = "CRITICAL"
    /\ \A i \in DOMAIN tick_log :
         tick_log[i].returned =>
           LET c == tick_log[i].container IN
           /\ EventsOf(c) = EventRows(c, CriticalOf(tick_log[i].issues))
           /\ tick_log[i].critical = Len(EventsOf(c))

\* a container was analysed whose issue list holds two CRITICAL issues and a
\* lower one
C4_Witness ==
    \E i \in DOMAIN tick_log :
        /\ tick_log[i].returned
        /\ Len(CriticalOf(tick_log[i].issues)) = 2
        /\ Len(tick_log[i].issues) = 3
        /\ Len(EventsOf(tick_log[i].container)) = 2

\* C5: when a Trend Store write fails while a container is processed, the
\* tick continues without persistence: that container's waste is still counted
\* in the tick summary.
C5_StoreFailureStillCounted ==
    TickEnded =>
        total_waste = WasteWhere(tick_log, {"none", "store_metric", "store_event"})

RECURSIVE RowsWaste(_)
\* the sum of waste_cpu_cost + waste_memory_cost over metrics rows
RowsWaste(rows) ==
    IF rows = <<>> THEN 0
    ELSE Head(rows).waste_cpu_cost + Head(rows).waste_memory_cost
           + RowsWaste(Tail(rows))

\* C26: at the end of every tick the total waste reported equals the sum of
\* waste_cpu_cost + waste_memory_cost over the metrics rows the tick
\* appended, each container of the tick has at most one metrics row, and
\* the CRITICAL count reported equals the number of security_events rows
\* the tick appended, also when an analysis fails after its metrics row
\* was written.
C26_AggregateMatchesPersisted ==
    TickEnded =>
        /\ total_waste = RowsWaste(tick_metrics)
        /\ \A i \in 1..Len(containers) : Len(MetricsOf(containers[i])) <= 1
        /\ critical_count = Len(tick_events)

-----------------------------------------------------------------------------
(* Claims about the Trend Store, checked under SpecStore and SpecHistory *)

IsPrefix(s, u) == Len(s) <= Len(u) /\ SubSeq(u, 1, Len(s)) = s

Idle == \A p \in Procs : wpc[p] = "idle"

\* C6: the log is a strict append: no step of the store removes or changes a
\* row that was written; a store_metric that returns adds exactly one row to
\* metrics and none to security_events, a store_security_event that returns
\* adds exactly one row to security_events and none to metrics, and
\* get_history, get_all_containers, get_waste_trend and a (re-)initialisation
\* of the schema leave both tables as they are.
C6_StrictAppend ==
    [][ /\ IsPrefix(metrics, metrics')
        /\ IsPrefix(events, events')
        /\ (last_call'.op = "store_metric" /\ last_call'.ok) =>
              (Len(metrics') = Len(metrics) + 1 /\ events' = events)
        /\ (last_call'.op = "store_security_event" /\ last_call'.ok) =>
              (Len(events') = Len(events) + 1 /\ metrics' = metrics)
        /\ last_call'.op \in {"get_history", "get_all_containers",
                              "get_waste_trend", "_init_db"} =>
              (metrics' = metrics /\ events' = events)
      ]_vars

\* the schema was initialised again on a store that holds rows in both tables
C6_Witness ==
    /\ last_call.op = "_init_db"
    /\ Len(metrics) >= 1
    /\ Len(events) >= 1

\* the instant a row was written, on the UTC clock
WrittenAt(row) == row.timestamp - tz_offset

\* C7: get_history(n, d) returns exactly the records of container n whose
\* age is within d days, in descending timestamp order, whatever the offset
\* between the host's local time and UTC.
C7_HistoryRoundTrip ==
    (last_call.op = "get_history" /\ last_call.ok) =>
        /\ RowsOf(last_call.result) =
             { r \in RowsOf(metrics) :
                 /\ r.container_name = last_call.name
                 /\ now_utc - WrittenAt(r) <= last_call.days * DayLen }
        /\ IsSortedDesc(last_call.result)

\* C8: with two writers interleaving their store calls, every call that
\* returned added one complete row holding that call's values at a rowid of
\* its own, and the row is still there: none is lost, overwritten or mixed.
C8_AtomicAppends ==
    /\ Cardinality({ a \in acked : a.tbl = "metrics" }) = Len(metrics)
    /\ Cardinality({ a \in acked : a.tbl = "security_events" }) = Len(events)
    /\ \A a \in acked :
         /\ a.rowid \in DOMAIN Table(a.tbl)
         /\ Table(a.tbl)[a.rowid] = a.row
         /\ a.row.container_id = ContainerOf(a.by)
         /\ a.row.container_name = ContainerName(ContainerOf(a.by))
    /\ \A a, b \in acked : (a.tbl = b.tbl /\ a.rowid = b.rowid) => a = b

\* both writers have rows in metrics, written while the other one wrote too
C8_Witness ==
    /\ \E a, b \in acked :
         /\ a.by = "loop" /\ b.by = "adhoc"
         /\ a.tbl = "metrics" /\ b.tbl = "metrics"
    /\ \E a, b \in acked :
         /\ a.by = "adhoc" /\ b.by = "loop"
         /\ a.tbl = "security_events" /\ b.tbl = "security_events"
         /\ a.rowid < b.rowid

\* C9: every store call closes its connection on every exit path: when no
\* call is in progress, no connection is open.
C9_NoConnectionLeftOpen ==
    Idle => open_conns = 0

-----------------------------------------------------------------------------
(* Claims about the snapshot parser, checked under SpecParse *)

HasCpuCounters(s) == CounterKeys \subseteq DOMAIN s
CpuDelta(s) == s["cpu_total"] - s["precpu_total"]
SystemDelta(s) == s["cpu_system"] - s["precpu_system"]

\* C10: for a snapshot with all CPU counter fields the parse raises nothing;
\* cpu_percent is 0.0 when cpu_delta <= 0 or system_delta <= 0, and
\* (cpu_delta / system_delta) x online_cores x 100 when both are positive,
\* with online_cores 1 when the snapshot has no online-core count.
C10_CpuPercent ==
    (parsed.done /\ HasCpuCounters(stats)) =>
        LET cores == IF "online_cpus" \in DOMAIN stats
                       THEN stats["online_cpus"] ELSE 1
            pct == parsed.cpu_percent
        IN  /\ parsed.ok
            /\ pct.den > 0
            /\ (CpuDelta(stats) <= 0 \/ SystemDelta(stats) <= 0) => pct.num = 0
            /\ (CpuDelta(stats) > 0 /\ SystemDelta(stats) > 0) =>
                 pct.num * SystemDelta(stats)
                   = CpuDelta(stats) * cores * 100 * pct.den

\* the spec's scenario A was parsed: cpu_delta = 0, system_delta = 1000,
\* online_cpus = 2
C10_Witness ==
    /\ parsed.done /\ HasCpuCounters(stats)
    /\ CpuDelta(stats) = 0
    /\ SystemDelta(stats) = 1000
    /\ "online_cpus" \in DOMAIN stats /\ stats["online_cpus"] = 2
    /\ parsed.cpu_percent = Zero

\* the memory part of the snapshot, as the runtime reported it
ReportsLimit(m) == "limit" \in DOMAIN m
Usage(m) == IF "usage" \in DOMAIN m THEN m["usage"] ELSE 0

RequiredCpuFields == CounterKeys
RequiredMemoryFields == {"usage", "limit"}

\* C12: parsing a snapshot from which a required field is absent (a CPU
\* counter, the memory usage or the memory limit) returns no sample: it
\* fails.  Only a missing online-core count is tolerated.
C12_MissingFieldFails ==
    (parsed.done /\ (~(RequiredCpuFields \subseteq DOMAIN stats)
                      \/ ~(RequiredMemoryFields \subseteq DOMAIN mem_stats)))
        => ~parsed.ok

-----------------------------------------------------------------------------
(* Claims about the waste classifier, checked under SpecAnalyze *)

Calls == 1..Len(analyses)
WindowOf(i) == analyses[i].after
Outcome(i) == analyses[i].outcome
Findings(i) == analyses[i].outcome.wastes
HasFinding(i, kind) == Outcome(i).ok /\ kind \in DOMAIN Findings(i)

\* the arithmetic mean of a column of the window is strictly below bound
MeanBelow(h, field, bound) ==
    RLess(RSum(Column(h, field)), Whole(bound * Len(h)))

\* C13: for every non-empty window analyze returns a CPU finding iff the
\* mean cpu_percent is strictly below 20 and a memory finding iff the mean
\* memory_percent is strictly below 30, independently, one finding at most
\* per resource kind.
C13_FindingIffBelowThreshold ==
    \A i \in Calls : WindowOf(i) # <<>> =>
        /\ Outcome(i).ok
        /\ DOMAIN Findings(i) \subseteq {"cpu", "memory"}
        /\ \A k \in DOMAIN Findings(i) : Findings(i)[k].resource_type = k
        /\ "cpu" \in DOMAIN Findings(i) <=> MeanBelow(WindowOf(i), "cpu_percent", 20)
        /\ "memory" \in DOMAIN Findings(i)
             <=> MeanBelow(WindowOf(i), "memory_percent", 30)

\* the values a CPU finding is derived from
CpuMean(i) == RDiv(RSum(Column(WindowOf(i), "cpu_percent")), Whole(Len(WindowOf(i))))
CpuDerivation(i) ==
    LET f == Findings(i)["cpu"]
        a == f.allocated
        p == CpuMean(i)
    IN  /\ REq(f.used, RMul(RDiv(p, Whole(100)), a))
        /\ REq(f.waste_amount, RSub(a, f.used))
        /\ REq(f.waste_percent, RMul(RDiv(f.waste_amount, a), Whole(100)))
        /\ REq(f.waste_percent, RSub(Whole(100), p))

ExactCpuCost(f) == RMul(RMul(f.waste_amount, Rational(4, 100)), Whole(730))

\* C14 as stated: every emitted CPU finding with allocated cores a > 0 and
\* window mean p has used = p/100 x a, waste_amount = a - used,
\* waste_percent = waste_amount / a x 100 = 100 - p, and monthly cost
\* exactly waste_amount x 0.04 x 730.
C14_CpuFindingExactCost ==
    \A i \in Calls :
        (HasFinding(i, "cpu") /\ Findings(i)["cpu"].allocated.num > 0) =>
            /\ CpuDerivation(i)
            /\ REq(Findings(i)["cpu"].monthly_cost_waste,
                   ExactCpuCost(Findings(i)["cpu"]))

\* C14, amended: as above, the monthly cost being waste_amount x 0.04 x 730
\* rounded to two decimals (whole cents, at most half a cent away).
C14_CpuFindingRoundedCost ==
    \A i \in Calls :
        (HasFinding(i, "cpu") /\ Findings(i)["cpu"].allocated.num > 0) =>
            LET f == Findings(i)["cpu"]
                cents == RMul(f.monthly_cost_waste, Whole(100))
                off == RSub(RMul(ExactCpuCost(f), Whole(100)), cents)
            IN  /\ CpuDerivation(i)
                /\ cents.den = 1
                /\ ~RLess(Rational(1, 2), off)
                /\ RLess(Rational(-1, 2), off)

\* the spec's scenario B was analysed (2 cores, mean 10 %): used 0.2,
\* wasted 1.8, waste_percent 90, 52.56 a month
C14_Witness ==
    \E i \in Calls :
        /\ HasFinding(i, "cpu")
        /\ REq(CpuMean(i), Whole(10))
        /\ Findings(i)["cpu"].allocated = Whole(2)
        /\ Findings(i)["cpu"].used = Rational(1, 5)
        /\ Findings(i)["cpu"].waste_amount = Rational(9, 5)
        /\ Findings(i)["cpu"].waste_percent = Whole(90)
        /\ REq(Findings(i)["cpu"].monthly_cost_waste, Rational(5256, 100))

\* C15: every finding analyze returns, CPU or memory, has waste_percent in
\* [0, 100], a non-negative waste_amount and a non-negative monthly cost.
C15_WasteWithinRange ==
    \A i \in Calls : Outcome(i).ok =>
        \A k \in DOMAIN Findings(i) :
            LET f == Findings(i)[k]
            IN  /\ f.waste_percent.num >= 0
                /\ ~RLess(Whole(100), f.waste_percent)
                /\ f.waste_amount.num >= 0
                /\ f.monthly_cost_waste.num >= 0

\* C16: analyze never fails on a zero divisor, whatever window the parser
\* produced (core count 0 and memory limit 0 included).
C16_NoZeroDivision ==
    \A i \in Calls : Outcome(i).error # "ZeroDivisionError"

\* C17: analyze on a window with zero samples (every sample collection
\* failed) fails with an error; it returns no result.
C17_EmptyWindowFails ==
    \A i \in Calls : WindowOf(i) = <<>> => ~Outcome(i).ok

\* C18: analyze called twice in a row on an analyzer holding a non-empty
\* window returns equal results, the calls collect no sample and leave the
\* stored window unchanged.
C18_AnalyzeIdempotent ==
    \A i \in Calls : analyses[i].before # <<>> =>
        /\ ~analyses[i].collected /\ analyses[i].sampled = 0
        /\ analyses[i].after = analyses[i].before
        /\ metrics_history = analyses[i].before
        /\ i > 1 => /\ analyses[i].before = analyses[i - 1].after
                    /\ Outcome(i) = Outcome(i - 1)

\* a window with CPU and memory waste was analysed twice
C18_Witness ==
    /\ Len(analyses) = 2
    /\ analyses[1].before # <<>>
    /\ analyses[2].before # <<>>
    /\ Outcome(2).ok
    /\ DOMAIN Findings(2) = {"cpu", "memory"}

-----------------------------------------------------------------------------
(* Claims about the security evaluation, checked under SpecSecurity *)

Evaluated == evaluation.done
Result == evaluation.outcome.issues
ChecksRun == Checks(inspect, evaluation.image)
Emitted == Flatten([k \in 1..Len(ChecksRun) |-> ChecksRun[k].issues])

\* the position of the check that emits an issue, in registration order
RegistrationRank(check_name) ==
    CASE check_name = "user_root" -> 1
      [] check_name = "public_port_exposure" -> 2
      [] check_name = "dangerous_capabilities" -> 3
      [] check_name = "privileged_mode" -> 4
      [] check_name = "secret_in_env" -> 5
      [] check_name = "writable_rootfs" -> 6
      [] check_name = "apparmor_disabled" -> 7
      [] check_name = "seccomp_disabled" -> 8
      [] check_name = "outdated_image" -> 9

SeverityRank(severity) ==
    CASE severity = "CRITICAL" -> 1
      [] severity = "HIGH" -> 2
      [] severity = "MEDIUM" -> 3
      [] severity = "LOW" -> 4
      [] severity = "INFO" -> 5

Severities == {"CRITICAL", "HIGH", "MEDIUM", "LOW", "INFO"}

\* C19: the list analyze returns is ordered CRITICAL, HIGH, MEDIUM, LOW,
\* INFO; issues of equal severity are in check registration order, and the
\* issues one check emitted at one severity keep their emission order; the
\* list holds the emitted issues, no more and no fewer.
C19_OrderedBySeverity ==
    (Evaluated /\ evaluation.outcome.ok) =>
        LET result == Result
            emitted == Emitted
            names == {emitted[n].check_name : n \in 1..Len(emitted)}
                       \cup {result[n].check_name : n \in 1..Len(result)}
        IN  /\ Len(result) = Len(emitted)
            /\ \A i, j \in 1..Len(result) : i < j =>
                 /\ SeverityRank(result[i].severity) <= SeverityRank(result[j].severity)
                 /\ result[i].severity = result[j].severity =>
                      RegistrationRank(result[i].check_name)
                        <= RegistrationRank(result[j].check_name)
            /\ \A name \in names : \A s \in Severities :
                 SelectSeq(result,
                           LAMBDA x : x.check_name = name /\ x.severity = s)
                   = SelectSeq(emitted,
                               LAMBDA x : x.check_name = name /\ x.severity = s)

\* an evaluation in which the sort moved issues, with two checks tied on a
\* severity and one check holding several issues
C19_Witness ==
    /\ Evaluated /\ evaluation.outcome.ok
    /\ Result # Emitted
    /\ \E i \in 1..(Len(Result) - 1) :
         /\ Result[i].severity = Result[i + 1].severity
         /\ Result[i].check_name # Result[i + 1].check_name
    /\ \E i, j \in 1..Len(Result) :
         /\ i # j
         /\ Result[i].check_name = "public_port_exposure"
         /\ Result[j].check_name = "public_port_exposure"

\* C20: no single check fails the whole evaluation: for every snapshot,
\* null optional fields included, analyze returns, and its list holds the
\* issues of every check that completed.
C20_NoCheckFailsEvaluation ==
    Evaluated =>
        /\ evaluation.outcome.ok
        /\ \A k \in 1..Len(ChecksRun) : ChecksRun[k].ok =>
             \A n \in 1..Len(ChecksRun[k].issues) :
               \E i \in 1..Len(Result) : Result[i] = ChecksRun[k].issues[n]

\* C21: two evaluations of the same configuration snapshot return the same
\* issue list in the same order, whatever the image lookup answered on
\* each call (it may fail, and the image's age grows between the calls).
C21_EvaluationDeterministic ==
    (previous.done /\ evaluation.done) =>
        evaluation.outcome = previous.outcome

\* the issues of the returned list that satisfy a condition
IssuesOf(check_name) == SelectSeq(Result, LAMBDA x : x.check_name = check_name)
CriticalIssues == SelectSeq(Result, LAMBDA x : x.severity = "CRITICAL")

\* the snapshot's configured user runs as root
ConfiguredRoot ==
    \/ inspect.User.state = "absent"
    \/ inspect.User.state = "value"
         /\ inspect.User.value \in {"", "root", "0", "0:0"}

\* the effective-user check: one CRITICAL "user_root" issue for a root
\* user, nothing for any other user
UserCheckExact ==
    /\ ConfiguredRoot =>
         /\ Len(IssuesOf("user_root")) = 1
         /\ IssuesOf("user_root")[1].severity = "CRITICAL"
    /\ ~ConfiguredRoot => IssuesOf("user_root") = <<>>

\* the spec's scenario C: User = "", not privileged, no capability adds
ScenarioC ==
    /\ inspect.User = Val("")
    /\ ~inspect.Privileged
    /\ inspect.CapAdd.state = "null"

\* a port of the sensitive set has a binding on all interfaces
SensitivePortPublic ==
    /\ inspect.Ports.state = "value"
    /\ \E i \in 1..Len(inspect.Ports.value) :
         LET e == inspect.Ports.value[i]
         IN  /\ e.key \in {"22/tcp", "3306/tcp"}
             /\ e.bindings.state = "value"
             /\ \E b \in 1..Len(e.bindings.value) :
                  e.bindings.value[b] \in {"0.0.0.0", ""}

HasMarker(marker) ==
    /\ inspect.SecurityOpt.state = "value"
    /\ \E i \in 1..Len(inspect.SecurityOpt.value) :
         inspect.SecurityOpt.value[i] = marker

\* some port has a binding on all interfaces
AnyPortPublic ==
    /\ inspect.Ports.state = "value"
    /\ \E i \in 1..Len(inspect.Ports.value) :
         LET e == inspect.Ports.value[i]
         IN  /\ e.bindings.state = "value"
             /\ \E b \in 1..Len(e.bindings.value) :
                  e.bindings.value[b] \in {"0.0.0.0", ""}

\* no entry of the environment looks like a secret
NoSecretEnv ==
    inspect.Env.state = "value" =>
        \A i \in 1..Len(inspect.Env.value) :
            inspect.Env.value[i] \in {"PATH=/bin", "DEBUG", "API_KEY=changeme"}

\* the spec's scenario D: seccomp disabled, everything else clean
ScenarioD ==
    /\ inspect.SecurityOpt = Val(<<"seccomp=unconfined">>)
    /\ ~ConfiguredRoot
    /\ ~AnyPortPublic
    /\ (inspect.CapAdd.state = "value" =>
          inspect.CapAdd.value \cap {"ALL", "SYS_ADMIN", "NET_ADMIN", "SYS_PTRACE",
                                     "SYS_MODULE", "DAC_OVERRIDE"} = {})
    /\ ~inspect.Privileged
    /\ NoSecretEnv
    /\ inspect.ReadonlyRootfs
    /\ evaluation.image.ok /\ evaluation.image.age_days <= 180

\* C23: a configuration whose security options are ["seccomp=unconfined"]
\* and which is otherwise clean gets a list of exactly one issue, HIGH,
\* "seccomp_disabled"; in general "apparmor=unconfined" in the list yields
\* one MEDIUM issue and "seccomp=unconfined" one HIGH issue, both markers
\* both issues.
C23_SeccompOnly ==
    Evaluated =>
        /\ ScenarioD =>
             /\ evaluation.outcome.ok
             /\ Len(Result) = 1
             /\ Result[1].severity = "HIGH"
             /\ Result[1].check_name = "seccomp_disabled"
        /\ evaluation.outcome.ok =>
             /\ HasMarker("apparmor=unconfined") =>
                  /\ Len(IssuesOf("apparmor_disabled")) = 1
                  /\ IssuesOf("apparmor_disabled")[1].severity = "MEDIUM"
             /\ HasMarker("seccomp=unconfined") =>
                  /\ Len(IssuesOf("seccomp_disabled")) = 1
                  /\ IssuesOf("seccomp_disabled")[1].severity = "HIGH"
             /\ ~HasMarker("apparmor=unconfined") =>
                  IssuesOf("apparmor_disabled") = <<>>
             /\ ~HasMarker("seccomp=unconfined") =>
                  IssuesOf("seccomp_disabled") = <<>>

\* the container port number of a key of the port table
PortOfKey(key) ==
    CASE key = "22/tcp" -> 22 [] key = "3306/tcp" -> 3306 [] key = "8080/tcp" -> 8080

SensitiveSet == {22, 3306, 5432, 6379, 27017, 9200, 5984, 3389}

\* the host bindings on all interfaces of the ports whose number is in set
PublicBindings(set) ==
    IF inspect.Ports.state # "value" THEN 0
    ELSE SumSeq([i \in 1..Len(inspect.Ports.value) |->
           LET e == inspect.Ports.value[i]
           IN  IF e.bindings.state = "value" /\ PortOfKey(e.key) \in set
                 THEN Cardinality({b \in 1..Len(e.bindings.value) :
                                     e.bindings.value[b] \in {"0.0.0.0", ""}})
                 ELSE 0])

PortIssues(severity) ==
    SelectSeq(Result, LAMBDA x : /\ x.check_name = "public_port_exposure"
                                 /\ x.severity = severity)

RightSizedCpus(used) == RMax(Rational(1, 4), RMul(used, Rational(3, 2)))
RightSizedMiB(used) ==
    RMax(Whole(128), RMul(RMul(used, Rational(3, 2)), Whole(1024)))

\* C27: the recommendation of a finding is used x 1.5 floored at 0.25 cores
\* (CPU) and at 128 MiB (memory), and the generated fix script applies the
\* same values: its --memory value in MiB is max(128, used_GiB x 1.5 x
\* 1024), never below 128m, and its --cpus value is max(0.25, used x 1.5).
C27_ScriptAppliesRecommendation ==
    script.done =>
        /\ "cpu" \in DOMAIN script.wastes =>
             LET w == script.wastes["cpu"]
             IN  /\ w.recommended = RoundTo(RightSizedCpus(w.used), 100)
                 /\ script.cpus.set
                 /\ script.cpus.value = w.recommended
        /\ "memory" \in DOMAIN script.wastes =>
             LET w == script.wastes["memory"]
             IN  /\ w.recommended = RoundTo(RightSizedMiB(w.used), 1)
                 /\ script.memory.set
                 /\ script.memory.mb >= 128
                 /\ Whole(script.memory.mb) = w.recommended

-----------------------------------------------------------------------------
(* Claims about sample collection, checked under SpecCollect *)

\* the wait between two samples was interrupted: the partial window did
\* not replace the stored one and no analyze call returned from it
PartialAbandoned ==
    collecting.pc = "cancelled" =>
        /\ collecting.partial # <<>>
        /\ Len(collecting.partial) < collecting.requested
        /\ metrics_history = collecting.before
        /\ metrics_history # collecting.partial
        /\ Len(analyses) = collecting.calls_before

\* C25 as stated: a collection cancelled during the wait between two
\* samples abandons the partial window, and, more generally, no window
\* requested with N samples is classified with fewer than N samples.
C25_NeverFewerThanRequested ==
    /\ PartialAbandoned
    /\ \A i \in Calls : analyses[i].collected =>
         Len(analyses[i].after) = analyses[i].sampled

\* C25, amended: a collection cancelled during the wait between two
\* samples abandons the partial window: it is not stored and nothing is
\* classified from it.
C25_CancelAbandonsPartial == PartialAbandoned

\* analyze was cancelled in the wait after its first sample
C25_Witness ==
    /\ collecting.pc = "cancelled"
    /\ collecting.caller = "analyze"
    /\ Len(collecting.partial) = 1
    /\ metrics_history = <<>>

=============================================================================
